---- MODULE Spec2Model ----
(***************************************************************************)
(* Wassermelder: the statistics engine of server.js (calculateStats) as    *)
(* called by GET /api/data (specification Spec), and the server's request  *)
(* handlers over the data file, the image files and the sessions           *)
(* (specification SpecServer; SpecStore for a server that starts on the    *)
(* data file of earlier runs), and the browser client of public/app.js     *)
(* talking to that server: its session and data (specification            *)
(* SpecClient) and its camera modal (specification SpecCamera).            *)
(*                                                                         *)
(* Units of the model.  An instant (a JS Date) is a whole number of hours  *)
(* since 1970-01-01T00:00Z; every instant the model draws is a whole hour, *)
(* so the millisecond arithmetic of the code reduces exactly.  The         *)
(* server's local time zone is UTC.  A meter value is a whole number of    *)
(* litres (the code's m3 value with three decimals, times 1000).  A number *)
(* the code rounds to one decimal is kept as a whole number of tenths.     *)
(* A value that may be null is a sequence: <<>> for null, <<x>> for x.     *)
(***************************************************************************)
EXTENDS Integers, Sequences, FiniteSets, Bags

VARIABLES
    readings,       \* data.readings of the data file, in stored order
    now,            \* the clock: new Date(), Date.now()
    response,       \* the response sent last, null before the first one
    authenticated,  \* the sessions whose req.session.authenticated is set
    images,         \* the files of the images directory: [name, content]
    uploads,        \* the bag of POST /api/reading requests suspended at an await
    client          \* the page of app.js: its state object, what it shows, and
                    \* its requests, callbacks and timers under way; null
                    \* while no page is loaded

vars == <<readings, now, response, authenticated, images, uploads, client>>

\* ------------------------------------------------------------------ bounds

\* Longest reading list held by the data file.
MaxReadings == 3

\* Longest reading list the handlers build, the number of photo uploads
\* that may be suspended at once, and the hours the server's clock runs.
MaxStore == 2
MaxUploads == 2
MaxTicks == 1

\* Longest reading list of a data file written by earlier runs of the
\* server.
MaxStored == 3

\* The fetches of the page under way at once, the camera streams the
\* browser grants, and the delayed closeCamera timers pending at once.
MaxFetches == 2
MaxStreams == 2
MaxTimers == 1

\* ------------------------------------------------------- program constants

HoursPerDay == 24
MonthBuckets == 12
WeekBuckets == 52
DaysPerWeek == 7

Null == <<>>

\* ------------------------------------------------------ the JS Date object

\* Days since 1970-01-01 of the civil date y-m-d (m in 1..12), proleptic
\* Gregorian calendar, as the Date constructor computes it.
DaysFromCivil(y, m, d) ==
    LET yy  == IF m <= 2 THEN y - 1 ELSE y
        era == yy \div 400
        yoe == yy - era * 400
        mp  == (m + 9) % 12
        doy == (153 * mp + 2) \div 5 + d - 1
        doe == yoe * 365 + yoe \div 4 - yoe \div 100 + doy
    IN  era * 146097 + doe - 719468

\* The civil date of a day number: [year, month (0..11, as getMonth), day].
\* The steps of the conversion, each handing its results on to the next:
\* the month point mp (0 = March) gives the month and the day of the month,
CivilOfMonthPoint(era, yoe, doy, mp) ==
    [year  |-> yoe + era * 400 + (IF mp >= 10 THEN 1 ELSE 0),
     month |-> (IF mp < 10 THEN mp + 3 ELSE mp - 9) - 1,
     day   |-> doy - (153 * mp + 2) \div 5 + 1]
\* the day of the year (from March 1) gives the month point,
CivilOfDayOfYear(era, yoe, doy) ==
    CivilOfMonthPoint(era, yoe, doy, (5 * doy + 2) \div 153)
\* the year of the era gives the day of the year,
CivilOfYearOfEra(era, doe, yoe) ==
    CivilOfDayOfYear(era, yoe, doe - (365 * yoe + yoe \div 4 - yoe \div 100))
\* and the day of the 400-year era gives the year of the era.
CivilOfDayOfEra(era, doe) ==
    CivilOfYearOfEra(era, doe,
        (doe - doe \div 1460 + doe \div 36524 - doe \div 146096) \div 365)
CivilOfShiftedDay(zz) == CivilOfDayOfEra(zz \div 146097, zz % 146097)
CivilFromDays(z) == CivilOfShiftedDay(z + 719468)

\* new Date(year, monthIndex, day): local midnight of that date; a month
\* index outside 0..11 and a day of 0 are carried into the year and month.
NewDate(year, monthIndex, day) ==
    LET y == year + monthIndex \div 12
        m == monthIndex % 12
    IN  (DaysFromCivil(y, m + 1, 1) + (day - 1)) * HoursPerDay

getFullYear(t) == CivilFromDays(t \div HoursPerDay).year
getMonth(t) == CivilFromDays(t \div HoursPerDay).month
getDate(t) == CivilFromDays(t \div HoursPerDay).day

\* Math.round(num / den) for den > 0: the nearest integer, a tie going up.
MathRound(num, den) == (2 * num + den) \div (2 * den)

\* ------------------------------------------------- JS numbers: the doubles

\* A JS number is an IEEE-754 double: a significand of 53 binary digits
\* and a power of two.  The quotient of a division is carried two digits
\* further, which with the remainder decides the rounding.
SignificandBits == 53
GuardBits == 55

\* A natural number too large for one integer of the model is a sequence of
\* limbs, digits in base 2^15, the least significant first and the most
\* significant not zero; <<>> is 0.
LimbBits == 15
LimbBase == 32768

RECURSIVE Strip(_)
Strip(a) ==
    IF a = <<>> THEN a
    ELSE IF a[Len(a)] # 0 THEN a
    ELSE Strip(SubSeq(a, 1, Len(a) - 1))

RECURSIVE BigOf(_)
BigOf(n) == IF n = 0 THEN <<>> ELSE <<n % LimbBase>> \o BigOf(n \div LimbBase)

RECURSIVE SmallOf(_)
SmallOf(a) == IF a = <<>> THEN 0 ELSE a[1] + LimbBase * SmallOf(Tail(a))

RECURSIVE Pow2(_)
Pow2(k) == IF k = 0 THEN 1 ELSE 2 * Pow2(k - 1)

RECURSIVE BitLength(_)
BitLength(n) == IF n = 0 THEN 0 ELSE 1 + BitLength(n \div 2)

\* The number of binary digits of a.
BigBitLength(a) ==
    IF a = <<>> THEN 0 ELSE LimbBits * (Len(a) - 1) + BitLength(a[Len(a)])

Limb(a, i) == IF i <= Len(a) THEN a[i] ELSE 0

\* The binary digit of a of weight 2^k.
BigBit(a, k) == (Limb(a, k \div LimbBits + 1) \div Pow2(k % LimbBits)) % 2

\* a has a binary digit 1 of weight below 2^k.
BigLow(a, k) ==
    \/ \E i \in 1..(k \div LimbBits) : Limb(a, i) # 0
    \/ Limb(a, k \div LimbBits + 1) % Pow2(k % LimbBits) # 0

RECURSIVE BigGeqFrom(_, _, _)
\* a >= b for numbers that agree above limb i.
BigGeqFrom(a, b, i) ==
    IF i = 0 THEN TRUE
    ELSE IF Limb(a, i) # Limb(b, i) THEN Limb(a, i) > Limb(b, i)
    ELSE BigGeqFrom(a, b, i - 1)

BigGeq(a, b) == BigGeqFrom(a, b, IF Len(a) > Len(b) THEN Len(a) ELSE Len(b))

RECURSIVE BigMulAddFrom(_, _, _, _)
BigMulAddFrom(a, k, carry, i) ==
    IF i > Len(a) THEN (IF carry = 0 THEN <<>> ELSE <<carry>>)
    ELSE <<(a[i] * k + carry) % LimbBase>>
            \o BigMulAddFrom(a, k, (a[i] * k + carry) \div LimbBase, i + 1)

\* a * k + c for 0 < k < 2^15 and 0 <= c < 2^15.
BigMulAdd(a, k, c) == BigMulAddFrom(a, k, c, 1)

RECURSIVE BigSubFrom(_, _, _, _)
BigSubFrom(a, b, borrow, i) ==
    IF i > Len(a) THEN <<>>
    ELSE <<(a[i] - Limb(b, i) - borrow) % LimbBase>>
            \o BigSubFrom(a, b, IF a[i] - Limb(b, i) - borrow < 0 THEN 1 ELSE 0, i + 1)

\* a - b for a >= b.
BigSub(a, b) == Strip(BigSubFrom(a, b, 0, 1))

\* a * 2^k.
BigShl(a, k) ==
    IF a = <<>> THEN <<>>
    ELSE [i \in 1..(k \div LimbBits) |-> 0] \o BigMulAdd(a, Pow2(k % LimbBits), 0)

\* a \div 2^k.
BigShr(a, k) ==
    IF k \div LimbBits >= Len(a) THEN <<>>
    ELSE Strip([i \in 1..(Len(a) - k \div LimbBits) |->
                  Limb(a, i + k \div LimbBits) \div Pow2(k % LimbBits)
                  + (Limb(a, i + k \div LimbBits + 1) % Pow2(k % LimbBits))
                        * (LimbBase \div Pow2(k % LimbBits))])

\* A double that is not negative is [m, e], the number m * 2^e, m in limbs.
\* The double nearest to (n + f) * 2^e, where 0 <= f < 1 and sticky tells
\* f > 0: n cut to 53 digits and rounded to nearest, a tie to the even one.
RoundedUp(m, up, e) == [m |-> IF up THEN BigMulAdd(m, 1, 1) ELSE m, e |-> e]

RoundCut(n, sticky, e, cut) ==
    RoundedUp(BigShr(n, cut),
              /\ BigBit(n, cut - 1) = 1
              /\ (sticky \/ BigLow(n, cut - 1) \/ BigBit(n, cut) = 1),
              e + cut)

RoundToDouble(n, sticky, e) ==
    IF BigBitLength(n) <= SignificandBits
    THEN [m |-> n, e |-> e]
    ELSE RoundCut(n, sticky, e, BigBitLength(n) - SignificandBits)

RECURSIVE LongDivision(_, _, _, _, _, _)
RECURSIVE LongDivisionStep(_, _, _, _, _, _)
\* Quotient and remainder of (n \div 2^stop) / d, given those (q, r) of
\* (n \div 2^k) / d: the digits of n are brought down to the remainder one
\* after the other.
LongDivisionStep(n, d, q, r, k, stop) ==
    IF BigGeq(r, d)
    THEN LongDivision(n, d, BigMulAdd(q, 2, 1), BigSub(r, d), k, stop)
    ELSE LongDivision(n, d, BigMulAdd(q, 2, 0), r, k, stop)

LongDivision(n, d, q, r, k, stop) ==
    IF k = stop THEN [q |-> q, r |-> r]
    ELSE LongDivisionStep(n, d, q, BigMulAdd(r, 2, BigBit(n, k - 1)), k - 1, stop)

\* The 55 last digits of n are brought down in five runs of eleven.
DigitsPerRun == 11
LongDivisionRun(n, d, qr, run) ==
    LongDivision(n, d, qr.q, qr.r, run * DigitsPerRun, (run - 1) * DigitsPerRun)

LongDivisionRuns(n, d, qr) ==
    LongDivisionRun(n, d,
        LongDivisionRun(n, d,
            LongDivisionRun(n, d,
                LongDivisionRun(n, d,
                    LongDivisionRun(n, d, qr, 5), 4), 3), 2), 1)

QuotientRounded(qr, e) == RoundToDouble(qr.q, qr.r # <<>>, e)

\* The double nearest to n / d * 2^e, for n whose digits are 55 more than
\* those of d, top being n \div 2^55 (which is below 2 * d).
QuotientFrom(n, d, e, top) ==
    IF BigGeq(top, d)
    THEN QuotientRounded(
            LongDivisionRuns(n, d, [q |-> <<1>>, r |-> BigSub(top, d)]), e)
    ELSE QuotientRounded(LongDivisionRuns(n, d, [q |-> <<>>, r |-> top]), e)

\* The double nearest to n / d * 2^e, for n > 0 and d > 0 in limbs.
QuotientShifted(n, d, e, k) ==
    IF k >= 0
    THEN QuotientFrom(BigShl(n, k), d, e - k, BigShr(BigShl(n, k), GuardBits))
    ELSE QuotientFrom(n, BigShl(d, -k), e - k, BigShr(n, GuardBits))

BigQuotient(n, d, e) ==
    QuotientShifted(n, d, e, BigBitLength(d) + GuardBits - BigBitLength(n))

\* x / y, x * k (0 < k < 2^15) and |x - y| of doubles, and x < y.
DoubleZero == [m |-> <<>>, e |-> 0]
DoubleDiv(x, y) ==
    IF x.m = <<>> THEN DoubleZero ELSE BigQuotient(x.m, y.m, x.e - y.e)
DoubleTimes(x, k) == RoundToDouble(BigMulAdd(x.m, k, 0), FALSE, x.e)
DoubleAt(x, e) == BigShl(x.m, x.e - e)
DoubleDistanceAt(x, y, e) ==
    IF BigGeq(DoubleAt(x, e), DoubleAt(y, e))
    THEN RoundToDouble(BigSub(DoubleAt(x, e), DoubleAt(y, e)), FALSE, e)
    ELSE RoundToDouble(BigSub(DoubleAt(y, e), DoubleAt(x, e)), FALSE, e)
DoubleDistance(x, y) == DoubleDistanceAt(x, y, IF x.e < y.e THEN x.e ELSE y.e)
DoubleLess(x, y) ==
    ~BigGeq(DoubleAt(x, IF x.e < y.e THEN x.e ELSE y.e),
            DoubleAt(y, IF x.e < y.e THEN x.e ELSE y.e))

\* Math.round of the double x, negated if neg: the nearest integer, a tie
\* going up (towards +Infinity).
MathRoundDouble(x, neg) ==
    IF x.e >= 0
    THEN (IF neg THEN -1 ELSE 1) * SmallOf(BigShl(x.m, x.e))
    ELSE IF neg
    THEN -(SmallOf(BigShr(x.m, -x.e))
           + (IF BigBit(x.m, -x.e - 1) = 1 /\ BigLow(x.m, -x.e - 1) THEN 1 ELSE 0))
    ELSE SmallOf(BigShr(x.m, -x.e)) + BigBit(x.m, -x.e - 1)

\* The stored value of a reading, a number of m3 written with three
\* decimals: the double nearest to litres / 1000.
LitresPerCubicMetre == 1000
StoredValue(litres) ==
    IF litres = 0 THEN DoubleZero
    ELSE BigQuotient(BigOf(litres), BigOf(LitresPerCubicMetre), 0)

\* (date2 - date1) / (1000 * 60 * 60 * 24) for instants dt > 0 hours apart.
DaysBetween(dt) == BigQuotient(BigOf(dt), BigOf(HoursPerDay), 0)

\* Math.round((consumption / days) * 10) in doubles, for consumption =
\* (end - start) * 1000 of the stored values end and start and days = dt
\* hours / 24: the size of the quotient, and its sign with the rounding.
RateOfStored(end, start, dt) ==
    MathRoundDouble(
        DoubleTimes(
            DoubleDiv(DoubleTimes(DoubleDistance(end, start), LitresPerCubicMetre),
                      DaysBetween(dt)),
            10),
        DoubleLess(end, start))

RateInDoubles(endValue, startValue, dt) ==
    RateOfStored(StoredValue(endValue), StoredValue(startValue), dt)

\* liters / days * 10 lies midway between two integers, days being dt hours.
RateIsTie(liters, dt) ==
    /\ (2 * liters * 10 * HoursPerDay) % dt = 0
    /\ ((2 * liters * 10 * HoursPerDay) \div dt) % 2 = 1

\* Math.round((consumption / days) * 10) / 10 in tenths, for consumption =
\* (endValue - startValue) * 1000 and days = dt hours / 24, the values in
\* litres.  Away from a tie the doubles give the integer nearest to the
\* exact quotient (for values below 2^27 litres their error stays below
\* 10^-7 tenths, and a quotient that is no tie is at least 1 / (2 * dt)
\* away from one); at a tie the errors of the doubles decide.
RatePerDay(endValue, startValue, dt) ==
    IF RateIsTie(endValue - startValue, dt)
    THEN RateInDoubles(endValue, startValue, dt)
    ELSE MathRound((endValue - startValue) * 10 * HoursPerDay, dt)

\* ---------------------------------------------------------- calculateStats

RECURSIVE InsertByDate(_, _)
\* r placed after every element of the sorted list s whose date is <= r.date.
InsertByDate(s, r) ==
    IF s = <<>> THEN <<r>>
    ELSE IF s[Len(s)].date <= r.date THEN Append(s, r)
    ELSE Append(InsertByDate(SubSeq(s, 1, Len(s) - 1), r), s[Len(s)])

RECURSIVE SortByDate(_)
\* [...readings].sort((a, b) => new Date(a.date) - new Date(b.date)),
\* a stable sort: readings of equal date keep their order.
SortByDate(s) ==
    IF s = <<>> THEN <<>>
    ELSE InsertByDate(SortByDate(SubSeq(s, 1, Len(s) - 1)), s[Len(s)])

LastInterval(sorted) ==
    LET lastReading == sorted[Len(sorted)]
        prevReading == sorted[Len(sorted) - 1]
        dt == lastReading.date - prevReading.date
        lastConsumption == lastReading.value - prevReading.value
    IN  [days         |-> MathRound(dt * 10, HoursPerDay),
         liters       |-> MathRound(lastConsumption * 10, 1),
         litersPerDay |->
            IF dt > 0 THEN RatePerDay(lastReading.value, prevReading.value, dt) ELSE 0,
         startDate    |-> prevReading.date,
         endDate      |-> lastReading.date]

\* Mutant of YearReadings: a reading at the very start of the year left out.
YearReadings_AfterStart(sorted, t) ==
    LET startOfYear == NewDate(getFullYear(t), 0, 1)
        InYear(r) == r.date > startOfYear
    IN  SelectSeq(sorted, InYear)

YearReadings(sorted, t) ==
    LET startOfYear == NewDate(getFullYear(t), 0, 1)
        InYear(r) == r.date >= startOfYear
    IN  SelectSeq(sorted, InYear)

\* Mutant of YearStats: the span ends at the reading before the latest one
\* (yearReadings[length - 2], as lastInterval's prevReading).
YearStats_PrevReading(sorted, t) ==
    LET yearReadings == YearReadings(sorted, t)
    IN  IF Len(yearReadings) >= 2
        THEN LET firstYearReading == yearReadings[1]
                 lastYearReading == yearReadings[Len(yearReadings) - 1]
                 dt == lastYearReading.date - firstYearReading.date
                 yearConsumption == lastYearReading.value - firstYearReading.value
             IN  <<[totalLiters     |-> MathRound(yearConsumption, 1),
                    avgLitersPerDay |->
                        IF dt > 0
                        THEN RatePerDay(lastYearReading.value, firstYearReading.value, dt)
                        ELSE 0,
                    days            |-> MathRound(dt, HoursPerDay)]>>
        ELSE Null

YearStats(sorted, t) ==
    LET yearReadings == YearReadings(sorted, t)
    IN  IF Len(yearReadings) >= 2
        THEN LET firstYearReading == yearReadings[1]
                 lastYearReading == yearReadings[Len(yearReadings)]
                 dt == lastYearReading.date - firstYearReading.date
                 yearConsumption == lastYearReading.value - firstYearReading.value
             IN  <<[totalLiters     |-> MathRound(yearConsumption, 1),
                    avgLitersPerDay |->
                        IF dt > 0
                        THEN RatePerDay(lastYearReading.value, firstYearReading.value, dt)
                        ELSE 0,
                    days            |-> MathRound(dt, HoursPerDay)]>>
        ELSE Null

\* The bucket boundaries of month i (11 the oldest, 0 the current month).
MonthDate(t, i) == NewDate(getFullYear(t), getMonth(t) - i, 1)
\* Mutant of MonthEnd: the day before the first of the month after next.
MonthEnd_NextMonth(t, i) ==
    LET monthDate == MonthDate(t, i)
    IN  NewDate(getFullYear(monthDate), getMonth(monthDate) + 2, 0)

MonthEnd(t, i) ==
    LET monthDate == MonthDate(t, i)
    IN  NewDate(getFullYear(monthDate), getMonth(monthDate) + 1, 0)

MonthReadingsBefore(sorted, t, i) ==
    LET monthDate == MonthDate(t, i)
        Before(r) == r.date < monthDate
    IN  SelectSeq(sorted, Before)

\* Mutant of MonthReadingsInOrBefore: a reading at monthEnd itself left out.
MonthReadingsInOrBefore_Strict(sorted, t, i) ==
    LET monthEnd == MonthEnd(t, i)
        InOrBefore(r) == r.date < monthEnd
    IN  SelectSeq(sorted, InOrBefore)

MonthReadingsInOrBefore(sorted, t, i) ==
    LET monthEnd == MonthEnd(t, i)
        InOrBefore(r) == r.date <= monthEnd
    IN  SelectSeq(sorted, InOrBefore)

\* Mutant of MonthEntry: the litres divided by the nominal width of the
\* month, not by the days between the two bracketing readings.
MonthEntry_NominalDays(sorted, t, i) ==
    LET monthDate == MonthDate(t, i)
        readingsBefore == MonthReadingsBefore(sorted, t, i)
        readingsInOrBefore == MonthReadingsInOrBefore(sorted, t, i)
        startReading == readingsBefore[Len(readingsBefore)]
        endReading == readingsInOrBefore[Len(readingsInOrBefore)]
        consumption == endReading.value - startReading.value
        days == MonthEnd(t, i) - monthDate
    IN  [month        |-> <<getMonth(monthDate), getFullYear(monthDate) % 100>>,
         litersPerDay |->
            IF /\ Len(readingsBefore) > 0
               /\ Len(readingsInOrBefore) > Len(readingsBefore)
               /\ endReading.date > startReading.date
            THEN <<RatePerDay(endReading.value, startReading.value, days)>>
            ELSE Null]

\* One entry of monthlyData.  consumption and days stay 0 unless the two
\* readings exist and endReading.date > startReading.date, and the rate is
\* null unless days > 0: the rate is computed exactly when all three hold.
MonthEntry(sorted, t, i) ==
    LET monthDate == MonthDate(t, i)
        readingsBefore == MonthReadingsBefore(sorted, t, i)
        readingsInOrBefore == MonthReadingsInOrBefore(sorted, t, i)
        startReading == readingsBefore[Len(readingsBefore)]
        endReading == readingsInOrBefore[Len(readingsInOrBefore)]
        consumption == endReading.value - startReading.value
        days == endReading.date - startReading.date
    IN  [month        |-> <<getMonth(monthDate), getFullYear(monthDate) % 100>>,
         litersPerDay |->
            IF /\ Len(readingsBefore) > 0
               /\ Len(readingsInOrBefore) > Len(readingsBefore)
               /\ days > 0
            THEN <<RatePerDay(endReading.value, startReading.value, days)>>
            ELSE Null]

\* Mutant of MonthlyData: the loop starts at i = 10, eleven entries.
MonthlyData_ElevenMonths(sorted, t) ==
    [k \in 1..(MonthBuckets - 1) |-> MonthEntry(sorted, t, MonthBuckets - 1 - k)]

MonthlyData(sorted, t) ==
    [k \in 1..MonthBuckets |-> MonthEntry(sorted, t, MonthBuckets - k)]

\* The bucket boundaries of week i (51 the oldest, 0 the one ending at t).
\* Mutant of WeekStart: every week reaches back two steps, so that weeks
\* overlap.
WeekStart_TwoSteps(t, i) == t - (i + 2) * DaysPerWeek * HoursPerDay

WeekStart(t, i) == t - (i + 1) * DaysPerWeek * HoursPerDay
WeekEnd(t, i) == t - i * DaysPerWeek * HoursPerDay

\* Mutant of WeekReadingsBefore: the strict comparison of the month buckets.
WeekReadingsBefore_Strict(sorted, t, i) ==
    LET weekStart == WeekStart(t, i)
        Before(r) == r.date < weekStart
    IN  SelectSeq(sorted, Before)

WeekReadingsBefore(sorted, t, i) ==
    LET weekStart == WeekStart(t, i)
        Before(r) == r.date <= weekStart
    IN  SelectSeq(sorted, Before)

WeekReadingsAfter(sorted, t, i) ==
    LET weekEnd == WeekEnd(t, i)
        After(r) == r.date <= weekEnd
    IN  SelectSeq(sorted, After)

WeekEntry(sorted, t, i) ==
    LET weekStart == WeekStart(t, i)
        readingsBefore == WeekReadingsBefore(sorted, t, i)
        readingsAfter == WeekReadingsAfter(sorted, t, i)
        startReading == readingsBefore[Len(readingsBefore)]
        endReading == readingsAfter[Len(readingsAfter)]
        days == endReading.date - startReading.date
        consumption == endReading.value - startReading.value
    IN  [week         |-> <<getDate(weekStart), getMonth(weekStart)>>,
         litersPerDay |->
            IF /\ Len(readingsBefore) > 0
               /\ Len(readingsAfter) > Len(readingsBefore)
               /\ days > 0
            THEN <<RatePerDay(endReading.value, startReading.value, days)>>
            ELSE Null]

WeeklyData(sorted, t) ==
    [k \in 1..WeekBuckets |-> WeekEntry(sorted, t, WeekBuckets - k)]

\* Mutant of calculateStats: the short list answered with zeros, not nulls.
calculateStats_ZeroDefaults(rs, t) ==
    IF Len(rs) < 2
    THEN [lastInterval |-> <<[days |-> 0, liters |-> 0, litersPerDay |-> 0,
                              startDate |-> 0, endDate |-> 0]>>,
          yearStats    |-> <<[totalLiters |-> 0, avgLitersPerDay |-> 0, days |-> 0]>>,
          monthlyData  |-> <<>>,
          weeklyData   |-> <<>>]
    ELSE LET sorted == SortByDate(rs)
         IN  [lastInterval |-> <<LastInterval(sorted)>>,
              yearStats    |-> YearStats(sorted, t),
              monthlyData  |-> MonthlyData(sorted, t),
              weeklyData   |-> WeeklyData(sorted, t)]

\* Mutant of calculateStats: the list is used in its stored order, unsorted.
calculateStats_Unsorted(rs, t) ==
    IF Len(rs) < 2
    THEN [lastInterval |-> Null,
          yearStats    |-> Null,
          monthlyData  |-> <<>>,
          weeklyData   |-> <<>>]
    ELSE [lastInterval |-> <<LastInterval(rs)>>,
          yearStats    |-> YearStats(rs, t),
          monthlyData  |-> MonthlyData(rs, t),
          weeklyData   |-> WeeklyData(rs, t)]

\* calculateStats(readings), with the clock it reads (new Date()) as t.
calculateStats(rs, t) ==
    IF Len(rs) < 2
    THEN [lastInterval |-> Null,
          yearStats    |-> Null,
          monthlyData  |-> <<>>,
          weeklyData   |-> <<>>]
    ELSE LET sorted == SortByDate(rs)
         IN  [lastInterval |-> <<LastInterval(sorted)>>,
              yearStats    |-> YearStats(sorted, t),
              monthlyData  |-> MonthlyData(sorted, t),
              weeklyData   |-> WeeklyData(sorted, t)]

\* ------------------------------------------------------------- the inputs

\* Instants: Date.UTC(y, m, d, h) in hours.
At(y, m, d, h) == DaysFromCivil(y, m, d) * HoursPerDay + h

\* The readings a data file may hold: [date, value in litres].  From the
\* reading of 2024-12-25 08:00 to that of 2025-01-01 it is 9 litres in 160
\* hours, 1.35 litres a day, a tie of the rate that the doubles round down.
ReadingPool ==
    { [date |-> At(2023, 6, 1, 0),   value |-> 0],
      [date |-> At(2024, 1, 1, 0),   value |-> 0],
      [date |-> At(2024, 1, 1, 0),   value |-> 100000],
      [date |-> At(2024, 2, 1, 0),   value |-> 103000],
      [date |-> At(2024, 6, 1, 0),   value |-> 101500],
      [date |-> At(2024, 12, 25, 0), value |-> 364000],
      [date |-> At(2024, 12, 25, 8), value |-> 365391],
      [date |-> At(2024, 12, 31, 0), value |-> 365000],
      [date |-> At(2024, 12, 31, 12), value |-> 365250],
      [date |-> At(2025, 1, 1, 0),   value |-> 365400] }

\* The instants at which the statistics are asked for.
Nows == { At(2024, 6, 2, 0), At(2025, 1, 1, 0) }

ReadingLists ==
    UNION { [1..n -> ReadingPool] : n \in 0..MaxReadings }

\* ------------------------------------------------------ the state machine

\* No session is authenticated, the images directory is empty, no upload
\* is under way and no page of the client is loaded.
ServerIdle ==
    /\ authenticated = {}
    /\ images = {}
    /\ uploads = EmptyBag
    /\ client = Null

\* The sessions of the browsers that talk to the server.
Sessions == {"s1"}

\* The data file holds some reading list; the session has logged in or has
\* not; no request has been answered.
Init ==
    /\ readings \in ReadingLists
    /\ now \in Nows
    /\ response = Null
    /\ authenticated \in SUBSET Sessions
    /\ images = {}
    /\ uploads = EmptyBag
    /\ client = Null

\* Mutant of ReadingsAfterStats: the caller's array sorted in place
\* (readings.sort(...) without the copy).
ReadingsAfterStats_SortedInPlace(rs) == SortByDate(rs)

\* The caller's array after calculateStats(rs): the sort works on the copy
\* [...readings], the array passed in keeps its order.
ReadingsAfterStats(rs) == rs

\* Mutant of LoadData: the catch branch, as when the file cannot be read.
LoadData_CatchBranch(file) == <<>>

\* loadData(): the readings of the data file.
LoadData(file) == file

\* requireAuth.  A response is recorded with its status and the data of
\* its body, and with the route and whether the session was authenticated.
requireAuth(s) == s \in authenticated

Unauthorized(route) == <<[route |-> route, status |-> 401, authed |-> FALSE]>>

\* GET /api/data
ApiData(s) ==
    /\ response' =
           IF requireAuth(s)
           THEN <<[route |-> "data", status |-> 200, authed |-> TRUE,
                   readings |-> ReadingsAfterStats(LoadData(readings)),
                   stats |-> calculateStats(LoadData(readings), now)]>>
           ELSE Unauthorized("data")
    /\ UNCHANGED <<readings, now, authenticated, images, uploads>>

\* GET /api/data, asked once.
GetData ==
    /\ response = Null
    /\ \E s \in Sessions : ApiData(s)
    /\ UNCHANGED client

Next == GetData

Spec == Init /\ [][Next]_vars

TypeOK ==
    /\ readings \in ReadingLists
    /\ now \in Nows
    /\ Len(response) <= 1

\* ------------------------------------------------------------ the server
\*
\* The handlers of server.js over the data file (readings), the images
\* directory (images) and the sessions (authenticated).  A handler without
\* an await runs to completion as one step; POST /api/reading is suspended
\* while multer reads its body and at its two awaits (sharp, the model's
\* analysis), and other requests are handled meanwhile.  The clock moves in whole hours, so Date.now() in
\* milliseconds and the file name's time in seconds both change exactly
\* when `now` does: two requests handled at one value of `now` are requests
\* within the same millisecond.  A response is recorded with its status and
\* the data of its body, and with what identifies the request it answers:
\* the route, whether the session was authenticated (authed) and, for
\* DELETE, the :id asked for.

APP_PASSWORD == "wasser2024"

Passwords == {APP_PASSWORD, "guess"}
Photos == {"photo"}

\* The instant the server starts at.
ServerStart == At(2025, 1, 1, 0)

RECURSIVE toString(_)
\* Number.prototype.toString: the decimal digits of n >= 0.
toString(n) ==
    IF n < 10 THEN <<n>> ELSE Append(toString(n \div 10), n % 10)

\* Date.now().toString() at the instant t.
NewId(t) == toString(t)

\* `photo_${dateStr}_${timeStr}.jpg`: the date and the time of day, to the
\* second, of the instant t.
Filename(t) ==
    LET day == CivilFromDays(t \div HoursPerDay)
    IN  [date |-> <<day.year, day.month + 1, day.day>>,
         time |-> <<t % HoursPerDay, 0, 0>>]

\* fs.writeFileSync, fs.existsSync and fs.unlinkSync on the images directory.
WriteFile(files, name, content) ==
    { f \in files : f.name # name } \cup { [name |-> name, content |-> content] }
ExistsFile(files, name) == \E f \in files : f.name = name
UnlinkFile(files, name) == { f \in files : f.name # name }

\* What the requests carry.
ManualBodies ==
    [value : {<<365400>>, <<-1000>>, Null},      \* Null: not a number
     date  : {Null, <<At(2024, 12, 25, 0)>>}]
UploadFiles == {Null} \cup { <<p>> : p \in Photos }
AnalysisOutcomes ==
    [throws     : BOOLEAN,
     value      : {Null, <<0>>, <<365250>>},      \* Null: no numeric value
     confidence : {"high"},
     notes      : {""}]
ClockValues == ServerStart .. (ServerStart + MaxTicks)
RequestIds == { NewId(t) : t \in ClockValues }
ImageNames == { Filename(t) : t \in ClockValues }

\* The server has started: the data file is initialised to no readings.
InitServer ==
    /\ readings = <<>>
    /\ now = ServerStart
    /\ response = Null
    /\ ServerIdle

\* The clock advances.
Tick ==
    /\ now < ServerStart + MaxTicks
    /\ now' = now + 1
    /\ UNCHANGED <<readings, response, authenticated, images, uploads>>

\* GET /api/auth/status
AuthStatus(s) ==
    /\ response' = <<[route |-> "status", status |-> 200,
                      authed |-> requireAuth(s),
                      authenticated |-> requireAuth(s)]>>
    /\ UNCHANGED <<readings, now, authenticated, images, uploads>>

\* POST /api/auth/login
Login(s, password) ==
    /\ IF password = APP_PASSWORD
       THEN /\ authenticated' = authenticated \cup {s}
            /\ response' = <<[route |-> "login", status |-> 200,
                              authed |-> requireAuth(s)]>>
       ELSE /\ authenticated' = authenticated
            /\ response' = <<[route |-> "login", status |-> 401,
                              authed |-> requireAuth(s)]>>
    /\ UNCHANGED <<readings, now, images, uploads>>

\* POST /api/auth/logout: req.session.destroy()
Logout(s) ==
    /\ authenticated' = authenticated \ {s}
    /\ response' = <<[route |-> "logout", status |-> 200,
                      authed |-> requireAuth(s)]>>
    /\ UNCHANGED <<readings, now, images, uploads>>

\* GET /images/<name>: express.static, mounted before the session
\* middleware and without requireAuth.
StaticImage(s, name) ==
    /\ response' =
           IF ExistsFile(images, name)
           THEN <<[route |-> "image", status |-> 200, authed |-> requireAuth(s),
                   file |-> CHOOSE f \in images : f.name = name]>>
           ELSE <<[route |-> "image", status |-> 404, authed |-> requireAuth(s)]>>
    /\ UNCHANGED <<readings, now, authenticated, images, uploads>>

\* GET /api/readings
ApiReadings(s) ==
    /\ response' =
           IF requireAuth(s)
           THEN <<[route |-> "readings", status |-> 200, authed |-> TRUE,
                   readings |-> LoadData(readings)]>>
           ELSE Unauthorized("readings")
    /\ UNCHANGED <<readings, now, authenticated, images, uploads>>

\* POST /api/reading/manual
ManualReading(s, body) ==
    LET valid == body.value # Null /\ body.value[1] >= 0
        data == LoadData(readings)
        newReading == [id         |-> NewId(now),
                       date       |-> IF body.date # Null THEN body.date[1] ELSE now,
                       value      |-> body.value[1],
                       confidence |-> "manual",
                       notes      |-> "Manually entered",
                       image      |-> Null]
        saved == Append(data, newReading)
    IN  /\ (requireAuth(s) /\ valid) => Len(readings) < MaxStore
        /\ IF ~requireAuth(s)
           THEN /\ response' = Unauthorized("manual")
                /\ readings' = readings
           ELSE IF ~valid
           THEN /\ response' = <<[route |-> "manual", status |-> 400, authed |-> TRUE]>>
                /\ readings' = readings
           ELSE /\ readings' = saved
                /\ response' = <<[route |-> "manual", status |-> 200, authed |-> TRUE,
                                  reading |-> newReading,
                                  stats |-> calculateStats(saved, now)]>>
        /\ UNCHANGED <<now, authenticated, images, uploads>>

\* data.readings.findIndex(r => r.id === id): the first reading of that id,
\* 0 (for JavaScript's -1) when there is none.
FindIndex(data, id) ==
    LET found == { k \in DOMAIN data : data[k].id = id }
    IN  IF found = {} THEN 0 ELSE CHOOSE k \in found : \A kk \in found : k <= kk

\* Mutant of Splice: splice(readingIndex), which removes the rest of the list.
Splice_ToTheEnd(data, readingIndex) == SubSeq(data, 1, readingIndex - 1)

\* data.readings.splice(readingIndex, 1)
Splice(data, readingIndex) ==
    SubSeq(data, 1, readingIndex - 1) \o SubSeq(data, readingIndex + 1, Len(data))

\* DELETE /api/reading/:id
DeleteReading(s, id) ==
    LET data == LoadData(readings)
        readingIndex == FindIndex(data, id)
        reading == data[readingIndex]
        saved == Splice(data, readingIndex)
    IN  /\ IF ~requireAuth(s)
           THEN /\ response' = Unauthorized("delete")
                /\ UNCHANGED <<readings, images>>
           ELSE IF readingIndex = 0
           THEN /\ response' = <<[route |-> "delete", status |-> 404, authed |-> TRUE]>>
                /\ UNCHANGED <<readings, images>>
           ELSE /\ images' = IF reading.image # Null /\ ExistsFile(images, reading.image[1])
                             THEN UnlinkFile(images, reading.image[1])
                             ELSE images
                /\ readings' = saved
                /\ response' = <<[route |-> "delete", status |-> 200, authed |-> TRUE,
                                  id |-> id,
                                  stats |-> calculateStats(saved, now)]>>
        /\ UNCHANGED <<now, authenticated, uploads>>

\* The suspended request `up` leaves the bag / the request `up` joins it.
Resumed(bag, up) == bag (-) SetToBag({up})
Suspended(bag, up) == bag (+) SetToBag({up})

\* POST /api/reading arrives: requireAuth, then upload.single('photo')
\* (multer) reads the body of the request, which takes further turns of the
\* event loop; file is the photo that the body carries, or null.
UploadStart(s, file) ==
    /\ requireAuth(s) => BagCardinality(uploads) < MaxUploads
    /\ IF ~requireAuth(s)
       THEN /\ response' = Unauthorized("upload")
            /\ uploads' = uploads
       ELSE /\ response' = response
            /\ uploads' = Suspended(uploads, [pc |-> "parsing", file |-> file])
    /\ UNCHANGED <<readings, now, authenticated, images>>

\* The body has been read.  A photo above the fileSize limit is an error of
\* multer, which Express answers with 500 without calling the handler.
\* Otherwise the handler runs up to its first await: the file check (400),
\* the file name from the clock, then sharp(...) is awaited.
UploadParsed(up, withinLimit) ==
    /\ BagIn(up, uploads)
    /\ up.pc = "parsing"
    /\ IF up.file = Null
       THEN /\ response' = <<[route |-> "upload", status |-> 400, authed |-> TRUE]>>
            /\ uploads' = Resumed(uploads, up)
       ELSE IF ~withinLimit
       THEN /\ response' = <<[route |-> "upload", status |-> 500, authed |-> TRUE]>>
            /\ uploads' = Resumed(uploads, up)
       ELSE /\ response' = response
            /\ uploads' = Suspended(Resumed(uploads, up),
                              [pc       |-> "optimizing",
                               now      |-> now,
                               filename |-> Filename(now),
                               buffer   |-> <<"original", up.file[1]>>])
    /\ UNCHANGED <<readings, now, authenticated, images>>

\* sharp(...).toBuffer() settles: resolved with the optimised JPEG, then the
\* analysis is awaited; or rejected, which the catch answers with 500.
UploadOptimized(up, resolved) ==
    /\ BagIn(up, uploads)
    /\ up.pc = "optimizing"
    /\ IF resolved
       THEN /\ uploads' = Suspended(Resumed(uploads, up),
                              [up EXCEPT !.pc = "analyzing",
                                         !.buffer = <<"jpeg", up.buffer[2]>>])
            /\ response' = response
       ELSE /\ uploads' = Resumed(uploads, up)
            /\ response' = <<[route |-> "upload", status |-> 500, authed |-> TRUE]>>
    /\ UNCHANGED <<readings, now, authenticated, images>>

\* Mutant of UploadAnalyzed: fs.writeFileSync moved up, before the check of
\* the analysed value.
UploadAnalyzed_WritesImageFirst(up, analysis) ==
    LET valid == analysis.value # Null /\ analysis.value[1] # 0
        data == LoadData(readings)
        newReading == [id         |-> NewId(now),
                       date       |-> up.now,
                       value      |-> analysis.value[1],
                       confidence |-> analysis.confidence,
                       notes      |-> analysis.notes,
                       image      |-> <<up.filename>>]
        saved == Append(data, newReading)
    IN  /\ BagIn(up, uploads)
        /\ up.pc = "analyzing"
        /\ (~analysis.throws /\ valid) => Len(readings) < MaxStore
        /\ uploads' = Resumed(uploads, up)
        /\ IF analysis.throws
           THEN /\ response' = <<[route |-> "upload", status |-> 500, authed |-> TRUE]>>
                /\ UNCHANGED <<readings, images>>
           ELSE IF ~valid
           THEN /\ response' = <<[route |-> "upload", status |-> 400, authed |-> TRUE]>>
                /\ images' = WriteFile(images, up.filename, up.buffer)
                /\ readings' = readings
           ELSE /\ images' = WriteFile(images, up.filename, up.buffer)
                /\ readings' = saved
                /\ response' = <<[route |-> "upload", status |-> 200, authed |-> TRUE,
                                  reading |-> newReading,
                                  stats |-> calculateStats(saved, now)]>>
        /\ UNCHANGED <<now, authenticated>>

\* analyzeWaterMeterImage settles and the handler runs to its end: the
\* analysis thrown (500) or without a number (400), or the image written,
\* the reading appended to the data file and the statistics answered.
UploadAnalyzed(up, analysis) ==
    LET valid == analysis.value # Null /\ analysis.value[1] # 0
        data == LoadData(readings)
        newReading == [id         |-> NewId(now),
                       date       |-> up.now,
                       value      |-> analysis.value[1],
                       confidence |-> analysis.confidence,
                       notes      |-> analysis.notes,
                       image      |-> <<up.filename>>]
        saved == Append(data, newReading)
    IN  /\ BagIn(up, uploads)
        /\ up.pc = "analyzing"
        /\ (~analysis.throws /\ valid) => Len(readings) < MaxStore
        /\ uploads' = Resumed(uploads, up)
        /\ IF analysis.throws
           THEN /\ response' = <<[route |-> "upload", status |-> 500, authed |-> TRUE]>>
                /\ UNCHANGED <<readings, images>>
           ELSE IF ~valid
           THEN /\ response' = <<[route |-> "upload", status |-> 400, authed |-> TRUE]>>
                /\ UNCHANGED <<readings, images>>
           ELSE /\ images' = WriteFile(images, up.filename, up.buffer)
                /\ readings' = saved
                /\ response' = <<[route |-> "upload", status |-> 200, authed |-> TRUE,
                                  reading |-> newReading,
                                  stats |-> calculateStats(saved, now)]>>
        /\ UNCHANGED <<now, authenticated>>

\* The requests the server handles, with no page of the client involved.
NextServer ==
    \/ Tick /\ UNCHANGED client
    \/ \E s \in Sessions : AuthStatus(s) /\ UNCHANGED client
    \/ \E s \in Sessions : \E password \in Passwords :
           Login(s, password) /\ UNCHANGED client
    \/ \E s \in Sessions : Logout(s) /\ UNCHANGED client
    \/ \E s \in Sessions : \E name \in ImageNames :
           StaticImage(s, name) /\ UNCHANGED client
    \/ \E s \in Sessions : ApiData(s) /\ UNCHANGED client
    \/ \E s \in Sessions : ApiReadings(s) /\ UNCHANGED client
    \/ \E s \in Sessions : \E body \in ManualBodies :
           ManualReading(s, body) /\ UNCHANGED client
    \/ \E s \in Sessions : \E id \in RequestIds :
           DeleteReading(s, id) /\ UNCHANGED client
    \/ \E s \in Sessions : \E file \in UploadFiles :
           UploadStart(s, file) /\ UNCHANGED client
    \/ \E up \in BagToSet(uploads) : \E withinLimit \in BOOLEAN :
           UploadParsed(up, withinLimit) /\ UNCHANGED client
    \/ \E up \in BagToSet(uploads) : \E resolved \in BOOLEAN :
           UploadOptimized(up, resolved) /\ UNCHANGED client
    \/ \E up \in BagToSet(uploads) : \E analysis \in AnalysisOutcomes :
           UploadAnalyzed(up, analysis) /\ UNCHANGED client

SpecServer == InitServer /\ [][NextServer]_vars

\* --------------------------------------------- the server on a kept store
\*
\* The data file and the images directory outlast the process: a server
\* that starts finds the readings that the handlers of earlier runs have
\* stored, each as the handler that stored it wrote it.

\* A reading as POST /api/reading/manual stored it at the instant t.
StoredManual(t, date, value) ==
    [id         |-> NewId(t),
     date       |-> date,
     value      |-> value,
     confidence |-> "manual",
     notes      |-> "Manually entered",
     image      |-> Null]

\* A reading as POST /api/reading stored it for an upload taken up and
\* analysed at the instant t.
StoredUpload(t, value) ==
    [id         |-> NewId(t),
     date       |-> t,
     value      |-> value,
     confidence |-> "high",
     notes      |-> "",
     image      |-> <<Filename(t)>>]

\* The readings of earlier runs: a manual entry, a second one stored in
\* the same millisecond (it has the id of the first), a manual entry made
\* later for an earlier date, and a photo.
StoredPool ==
    { StoredManual(At(2024, 12, 25, 0), At(2024, 12, 25, 0), 364000),
      StoredManual(At(2024, 12, 25, 0), At(2024, 12, 25, 8), 365391),
      StoredManual(At(2024, 12, 31, 12), At(2024, 6, 1, 0), 101500),
      StoredUpload(At(2024, 12, 31, 0), 365000) }

StoredLists == UNION { [1..n -> StoredPool] : n \in 0..MaxStored }

\* The image files of the readings rs, as the upload handler wrote them.
StoredImages(rs) ==
    { [name |-> rs[k].image[1], content |-> <<"jpeg", CHOOSE p \in Photos : TRUE>>] :
          k \in { j \in DOMAIN rs : rs[j].image # Null } }

\* The ids a DELETE may ask for: those of the kept readings, and those of
\* the readings this run can store.
StoredIds == { r.id : r \in StoredPool } \cup RequestIds

\* The server has started on a data file of earlier runs.
InitStore ==
    /\ readings \in StoredLists
    /\ now = ServerStart
    /\ response = Null
    /\ authenticated = {}
    /\ images = StoredImages(readings)
    /\ uploads = EmptyBag
    /\ client = Null

\* Logging in and out, reading the data, entering and deleting readings.
NextStore ==
    \/ \E s \in Sessions : \E password \in Passwords :
           Login(s, password) /\ UNCHANGED client
    \/ \E s \in Sessions : Logout(s) /\ UNCHANGED client
    \/ \E s \in Sessions : ApiData(s) /\ UNCHANGED client
    \/ \E s \in Sessions : \E body \in ManualBodies :
           ManualReading(s, body) /\ UNCHANGED client
    \/ \E s \in Sessions : \E id \in StoredIds :
           DeleteReading(s, id) /\ UNCHANGED client

SpecStore == InitStore /\ [][NextStore]_vars

\* ------------------------------------------------------------ the client
\*
\* One page of public/app.js in a browser, talking to the server above in
\* the session ClientSession.  `client` holds the fields of the page's
\* state object (authenticated, readings, stats, mediaStream, capturedBlob,
\* analysisData), what the page shows (screen, modal, stage, loading,
\* picker), and what is under way: the fetches sent and not yet delivered,
\* the getUserMedia requests not yet settled, the camera streams granted
\* and not yet stopped, the canvas.toBlob callbacks and the delayed
\* closeCamera timers not yet run.  Every callback of the page runs to
\* completion as one step; between two of them the server may handle any
\* request it has received, and responses are delivered in any order.
\* index.html is not part of the sources: the page is taken to start with
\* the camera modal, the loading overlay and the file picker closed, and
\* with either of the login screen and the dashboard showing.

ClientSession == "s1"

\* The data file the server finds at its start: one reading entered
\* by hand earlier.
StoredBefore ==
    <<[id         |-> NewId(At(2024, 12, 25, 0)),
       date       |-> At(2024, 12, 25, 0),
       value      |-> 365000,
       confidence |-> "manual",
       notes      |-> "Manually entered",
       image      |-> Null]>>

\* A fetch of the page: api(...) or fetch(...).  kind names the caller,
\* password and id are what the request carries, then is what awaits the
\* loadData it belongs to; phase is "sent", "suspended" (the upload handler
\* at one of its awaits) or "answered", with the response in reply.
Fetch(kind, password, id, then) ==
    [kind |-> kind, password |-> password, id |-> id, then |-> then,
     phase |-> "sent", reply |-> Null]

\* The page sends the fetch f / the fetch f changes into g / f is delivered.
Sent(f) == [client EXCEPT !.fetches = @ (+) SetToBag({f})]
Fetching(c, f) == [c EXCEPT !.fetches = @ (+) SetToBag({f})]
Delivered(c, f) == [c EXCEPT !.fetches = @ (-) SetToBag({f})]
WithReply(f, r) == [f EXCEPT !.phase = "answered", !.reply = <<r>>]
Replaced(f, g) == [client EXCEPT !.fetches = (@ (-) SetToBag({f})) (+) SetToBag({g})]

\* What the user can click: the login form, the dashboard (which the open
\* camera modal covers) and the camera modal, none of them under the
\* loading overlay.
LoginClickable == client.screen = "login" /\ ~client.loading
DashboardClickable ==
    client.screen = "dashboard" /\ client.modal = "hidden" /\ ~client.loading
ModalClickable == client.modal = "visible" /\ ~client.loading

\* response.ok
Ok(f) == f.reply[1].status = 200

\* renderHistory(): the history list shows the readings of the state, each
\* with a delete button that carries its id.
renderHistory(c) ==
    [c EXCEPT !.history = { c.readings[k].id : k \in DOMAIN c.readings }]

\* loadData(): GET /api/data is sent; `then` names the caller that awaits it.
loadData(c, then) == Fetching(c, Fetch("data", "", <<>>, then))

showLogin(c) == [c EXCEPT !.screen = "login"]
showDashboard(c) == [c EXCEPT !.screen = "dashboard"]

\* The state object and the page as app.js sets them up, and checkAuth()
\* called at the end of the script: GET /api/auth/status is under way.
ClientLoaded(screen) ==
    [authenticated  |-> FALSE,
     readings       |-> <<>>,
     stats          |-> Null,
     mediaStream    |-> Null,
     srcObject      |-> FALSE,
     capturedBlob   |-> FALSE,
     analysisData   |-> Null,
     screen         |-> screen,
     modal          |-> "hidden",
     stage          |-> "preview",
     loading        |-> FALSE,
     picker         |-> FALSE,
     fetches        |-> SetToBag({Fetch("status", "", <<>>, "none")}),
     cameraRequests |-> 0,
     granted        |-> 0,
     live           |-> {},
     blobCallbacks  |-> <<>>,
     history        |-> {},
     timers         |-> 0]

InitClient ==
    /\ readings = StoredBefore
    /\ now = ServerStart
    /\ response = Null
    /\ authenticated = {}
    /\ images = {}
    /\ uploads = EmptyBag
    /\ client \in { ClientLoaded(screen) : screen \in {"login", "dashboard"} }

\* The fetches of the page in one phase.
InPhase(phase) == { f \in BagToSet(client.fetches) : f.phase = phase }

\* The server handles a request of the page that does not suspend, and
\* answers it.
ServerHandles(f) ==
    /\ f \in InPhase("sent")
    /\ f.kind # "upload"
    /\ CASE f.kind = "status" -> AuthStatus(ClientSession)
         [] f.kind = "login"  -> Login(ClientSession, f.password)
         [] f.kind = "logout" -> Logout(ClientSession)
         [] f.kind = "data"   -> ApiData(ClientSession)
         [] f.kind = "delete" -> DeleteReading(ClientSession, f.id)
    /\ client' = Replaced(f, WithReply(f, response'[1]))

\* The server takes up the upload of the page: refused with 401, or
\* suspended while multer reads the body.
ServerTakesUpload(f) ==
    /\ f \in InPhase("sent")
    /\ f.kind = "upload"
    /\ UploadStart(ClientSession, <<CHOOSE p \in Photos : TRUE>>)
    /\ client' = IF requireAuth(ClientSession)
                 THEN Replaced(f, [f EXCEPT !.phase = "suspended"])
                 ELSE Replaced(f, WithReply(f, response'[1]))

\* The body of the upload of the page has been read.
ServerParses(f, up, withinLimit) ==
    /\ f \in InPhase("suspended")
    /\ UploadParsed(up, withinLimit)
    /\ client' = IF up.file # Null /\ withinLimit THEN client
                 ELSE Replaced(f, WithReply(f, response'[1]))

\* sharp settles for the upload of the page.
ServerOptimizes(f, up, resolved) ==
    /\ f \in InPhase("suspended")
    /\ UploadOptimized(up, resolved)
    /\ client' = IF resolved THEN client
                 ELSE Replaced(f, WithReply(f, response'[1]))

\* The analysis settles for the upload of the page, and it is answered.
ServerAnalyzes(f, up, analysis) ==
    /\ f \in InPhase("suspended")
    /\ UploadAnalyzed(up, analysis)
    /\ client' = Replaced(f, WithReply(f, response'[1]))

\* The server's variables stay as they are in a step of the page.
ServerWaits == UNCHANGED <<readings, now, response, authenticated, images, uploads>>

\* checkAuth() resumes after GET /api/auth/status.
checkAuthResumes(f) ==
    /\ f \in InPhase("answered")
    /\ f.kind = "status"
    /\ client' =
          LET c == Delivered(client, f)
          IN  IF ~Ok(f) THEN showLogin(c)
              ELSE IF f.reply[1].authenticated
              THEN loadData(showDashboard([c EXCEPT !.authenticated = TRUE]), "none")
              ELSE showLogin([c EXCEPT !.authenticated = FALSE])
    /\ ServerWaits

\* The login form is submitted: login(password) up to its await.
login(password) ==
    /\ LoginClickable
    /\ BagCardinality(client.fetches) < MaxFetches
    /\ client' = Sent(Fetch("login", password, <<>>, "none"))
    /\ ServerWaits

\* login() resumes after POST /api/auth/login: on success the dashboard and
\* loadData(), otherwise the error line of the form.
loginResumes(f) ==
    /\ f \in InPhase("answered")
    /\ f.kind = "login"
    /\ client' =
          LET c == Delivered(client, f)
          IN  IF Ok(f)
              THEN loadData(showDashboard([c EXCEPT !.authenticated = TRUE]), "none")
              ELSE c
    /\ ServerWaits

\* The logout button is clicked: logout() up to its await.
logout ==
    /\ DashboardClickable
    /\ BagCardinality(client.fetches) < MaxFetches
    /\ client' = Sent(Fetch("logout", "", <<>>, "none"))
    /\ ServerWaits

\* logout() resumes after POST /api/auth/logout, whatever the answer.
logoutResumes(f) ==
    /\ f \in InPhase("answered")
    /\ f.kind = "logout"
    /\ client' = showLogin([Delivered(client, f) EXCEPT
                               !.authenticated = FALSE,
                               !.readings = <<>>,
                               !.stats = Null])
    /\ ServerWaits

\* setTimeout(() => closeCamera(), 2000) of analyzePhoto.
closeLater(c) == [c EXCEPT !.timers = @ + 1]

\* loadData() resumes after GET /api/data: the readings and the statistics
\* are taken over, or a toast on failure; analyzePhoto, when it awaits this
\* loadData, goes on to its toast, its delayed closeCamera and hideLoading.
loadDataResumes(f) ==
    /\ f \in InPhase("answered")
    /\ f.kind = "data"
    /\ f.then = "analyzePhoto" => client.timers < MaxTimers
    /\ client' =
          LET c == Delivered(client, f)
              loaded == IF Ok(f)
                        THEN renderHistory(
                                 [c EXCEPT !.readings = f.reply[1].readings,
                                           !.stats = <<f.reply[1].stats>>])
                        ELSE c
          IN  IF f.then = "analyzePhoto"
              THEN [closeLater(loaded) EXCEPT !.loading = FALSE]
              ELSE loaded
    /\ ServerWaits

\* A delete button of the history list is clicked and confirmed:
\* deleteReading(id) up to its first await.
deleteReading(id) ==
    /\ DashboardClickable
    /\ id \in client.history
    /\ BagCardinality(client.fetches) < MaxFetches
    /\ client' = Sent(Fetch("delete", "", id, "none"))
    /\ ServerWaits

\* deleteReading() resumes after DELETE /api/reading/:id: loadData() is
\* awaited, or a toast on failure.
deleteReadingResumes(f) ==
    /\ f \in InPhase("answered")
    /\ f.kind = "delete"
    /\ client' =
          LET c == Delivered(client, f)
          IN  IF Ok(f) THEN loadData(c, "deleteReading") ELSE c
    /\ ServerWaits

\* resetCameraModal()
resetCameraModal(c) ==
    [c EXCEPT !.stage = "preview", !.capturedBlob = FALSE, !.analysisData = Null]

\* track.stop() on every track of state.mediaStream, and the field set to
\* null, if it holds a stream.
stopMediaStream(c) ==
    IF c.mediaStream # Null
    THEN [c EXCEPT !.live = @ \ {c.mediaStream[1]}, !.mediaStream = Null]
    ELSE c

\* closeCamera()
closeCamera(c) ==
    [stopMediaStream(c) EXCEPT
        !.modal = "hidden", !.srcObject = FALSE,
        !.capturedBlob = FALSE, !.analysisData = Null]

\* openCamera() up to its await: the modal shown and reset, getUserMedia
\* asked for a stream.
openCamera(c) ==
    [resetCameraModal(c) EXCEPT !.modal = "visible", !.cameraRequests = @ + 1]

\* Every getUserMedia request under way can still be granted a stream.
CanAskForStream == client.granted + client.cameraRequests < MaxStreams

\* The capture button of the dashboard is clicked.
captureClicked ==
    /\ DashboardClickable
    /\ CanAskForStream
    /\ client' = openCamera(client)
    /\ ServerWaits

\* openCamera() resumes: getUserMedia has granted a new stream, which is
\* stored in state.mediaStream; or it has failed, and closeCamera() and the
\* file picker follow.
openCameraResumes(stream) ==
    /\ client.cameraRequests > 0
    /\ client' =
          LET c == [client EXCEPT !.cameraRequests = @ - 1]
          IN  IF stream
              THEN [c EXCEPT !.granted = @ + 1,
                             !.live = @ \cup {c.granted + 1},
                             !.mediaStream = <<c.granted + 1>>,
                             !.srcObject = TRUE]
              ELSE [closeCamera(c) EXCEPT !.picker = TRUE]
    /\ ServerWaits

\* closeCamera() called by a click on the backdrop or on the close button
\* of the modal, or by the Escape key, which works at any time.
closeCameraCalled(by) ==
    /\ by = "click" => ModalClickable
    /\ client' = closeCamera(client)
    /\ ServerWaits

\* The delayed closeCamera() of analyzePhoto runs.
closeCameraTimer ==
    /\ client.timers > 0
    /\ client' = closeCamera([client EXCEPT !.timers = @ - 1])
    /\ ServerWaits

\* The snap button is clicked: capturePhoto() draws the frame of the video
\* and asks canvas.toBlob for it.  The callback will be given a blob if the
\* video has a stream as its srcObject and a frame of it to draw; with no
\* srcObject or no frame yet the canvas has no size and the blob is null.
capturePhoto(frame) ==
    /\ ModalClickable
    /\ client.stage = "preview"
    /\ Len(client.blobCallbacks) < MaxTimers
    /\ client' = [client EXCEPT
                     !.blobCallbacks = Append(@, client.srcObject /\ frame)]
    /\ ServerWaits

\* The toBlob callback of capturePhoto() runs: with a blob it shows the
\* capture and stops the stream; with null it sets state.capturedBlob to
\* null and ends there, URL.createObjectURL(null) throwing.
capturePhotoBlob ==
    /\ client.blobCallbacks # <<>>
    /\ client' =
          IF Head(client.blobCallbacks)
          THEN stopMediaStream([client EXCEPT !.blobCallbacks = Tail(@),
                                              !.capturedBlob = TRUE,
                                              !.stage = "captured"])
          ELSE [client EXCEPT !.blobCallbacks = Tail(@), !.capturedBlob = FALSE]
    /\ ServerWaits

\* The retake button is clicked: resetCameraModal(), openCamera().
retakeClicked ==
    /\ ModalClickable
    /\ client.stage # "preview"
    /\ CanAskForStream
    /\ client' = openCamera(resetCameraModal(client))
    /\ ServerWaits

\* The file picker closes: with a file, handleFileSelect shows it in the
\* modal; without one nothing is called.
handleFileSelect(file) ==
    /\ client.picker
    /\ client' =
          IF file
          THEN [client EXCEPT !.picker = FALSE, !.capturedBlob = TRUE,
                              !.modal = "visible", !.stage = "captured"]
          ELSE [client EXCEPT !.picker = FALSE]
    /\ ServerWaits

\* The analyze button is clicked: analyzePhoto() up to its first await.
analyzePhoto ==
    /\ ModalClickable
    /\ client.stage = "captured"
    /\ client.capturedBlob => BagCardinality(client.fetches) < MaxFetches
    /\ client' =
          IF ~client.capturedBlob THEN client
          ELSE Fetching([client EXCEPT !.loading = TRUE],
                        Fetch("upload", "", <<>>, "none"))
    /\ ServerWaits

\* analyzePhoto() resumes after POST /api/reading: on failure a toast and
\* hideLoading(); on success the reading is shown and loadData() awaited.
analyzePhotoResumes(f) ==
    /\ f \in InPhase("answered")
    /\ f.kind = "upload"
    /\ client' =
          LET c == Delivered(client, f)
          IN  IF Ok(f)
              THEN loadData([c EXCEPT !.analysisData = <<f.reply[1].reading>>,
                                      !.stage = "analyzed"],
                            "analyzePhoto")
              ELSE [c EXCEPT !.loading = FALSE]
    /\ ServerWaits

\* The page and its session: logging in and out, loading and deleting,
\* with the server answering, the camera left alone.
NextClient ==
    \/ \E f \in InPhase("sent") : ServerHandles(f)
    \/ \E f \in InPhase("answered") : checkAuthResumes(f)
    \/ \E password \in Passwords : login(password)
    \/ \E f \in InPhase("answered") : loginResumes(f)
    \/ logout
    \/ \E f \in InPhase("answered") : logoutResumes(f)
    \/ \E f \in InPhase("answered") : loadDataResumes(f)
    \/ \E id \in client.history : deleteReading(id)
    \/ \E f \in InPhase("answered") : deleteReadingResumes(f)

SpecClient == InitClient /\ [][NextClient]_vars

\* The page is loaded in a browser that still holds the cookie of an
\* authenticated session.
InitCamera ==
    /\ readings = StoredBefore
    /\ now = ServerStart
    /\ response = Null
    /\ authenticated = {ClientSession}
    /\ images = {}
    /\ uploads = EmptyBag
    /\ client \in { ClientLoaded(screen) : screen \in {"login", "dashboard"} }

\* The page and its camera: taking, choosing and analysing a photo, with
\* the server answering, the session left as it is.
NextCamera ==
    \/ \E f \in InPhase("sent") : ServerHandles(f)
    \/ \E f \in InPhase("sent") : ServerTakesUpload(f)
    \/ \E f \in InPhase("suspended") : \E up \in BagToSet(uploads) :
           \E withinLimit \in BOOLEAN : ServerParses(f, up, withinLimit)
    \/ \E f \in InPhase("suspended") : \E up \in BagToSet(uploads) :
           \E resolved \in BOOLEAN : ServerOptimizes(f, up, resolved)
    \/ \E f \in InPhase("suspended") : \E up \in BagToSet(uploads) :
           \E analysis \in AnalysisOutcomes : ServerAnalyzes(f, up, analysis)
    \/ \E f \in InPhase("answered") : checkAuthResumes(f)
    \/ \E f \in InPhase("answered") : loadDataResumes(f)
    \/ captureClicked
    \/ \E stream \in BOOLEAN : openCameraResumes(stream)
    \/ \E by \in {"click", "Escape"} : closeCameraCalled(by)
    \/ closeCameraTimer
    \/ \E frame \in BOOLEAN : capturePhoto(frame)
    \/ capturePhotoBlob
    \/ retakeClicked
    \/ \E file \in BOOLEAN : handleFileSelect(file)
    \/ analyzePhoto
    \/ \E f \in InPhase("answered") : analyzePhotoResumes(f)

SpecCamera == InitCamera /\ [][NextCamera]_vars

\* ------------------------------------------------- vocabulary of the claims

\* GET /api/data has been answered with the data.
Answered == response # Null /\ response[1].status = 200
Stats == response[1].stats

HasRate(e) == e.litersPerDay # Null

\* n is x = num / den (den > 0) rounded to the nearest integer, to either
\* of the two when x lies midway between them: n - 1/2 <= x <= n + 1/2.
IsRounded(n, num, den) ==
    /\ 2 * den * n <= 2 * num + den
    /\ 2 * num - den <= 2 * den * n

\* n is x = num / den rounded to the nearest integer, a tie going up, as
\* Math.round does of the exact quotient: n <= x + 1/2 < n + 1.
IsRoundedUp(n, num, den) ==
    /\ 2 * den * n <= 2 * num + den
    /\ 2 * num + den < 2 * den * (n + 1)

\* The index, among the indices S of the list rs, of the reading that comes
\* last in ascending timestamp order (of equal timestamps, the later in rs).
LatestIdx(rs, S) ==
    CHOOSE i \in S : \A j \in S :
        \/ rs[j].date < rs[i].date
        \/ rs[j].date = rs[i].date /\ j <= i

\* The same for the reading that comes first (of equal timestamps, the
\* earlier in rs).
EarliestIdx(rs, S) ==
    CHOOSE i \in S : \A j \in S :
        \/ rs[j].date > rs[i].date
        \/ rs[j].date = rs[i].date /\ j >= i

Reading(y, m, d, h, v) == [date |-> At(y, m, d, h), value |-> v]

\* --------------------------------------------------------------------- C1

\* C1 as stated: whatever the reading list, monthlyData has exactly 12
\* entries and weeklyData exactly 52, each a rate or null.
C1_AlwaysTwelveAndFiftyTwo ==
    Answered =>
        /\ Len(Stats.monthlyData) = 12
        /\ Len(Stats.weeklyData) = 52

EntryWellFormed(e) ==
    \/ e.litersPerDay = Null
    \/ Len(e.litersPerDay) = 1 /\ e.litersPerDay[1] \in Int

\* C1 amended: for a list of at least two readings monthlyData has exactly
\* 12 entries and weeklyData exactly 52, each entry a rate or null; for a
\* list of zero or one readings both series are empty.
C1_SeriesLengths ==
    Answered =>
        IF Len(readings) >= 2
        THEN /\ Len(Stats.monthlyData) = 12
             /\ Len(Stats.weeklyData) = 52
             /\ \A k \in 1..12 : EntryWellFormed(Stats.monthlyData[k])
             /\ \A k \in 1..52 : EntryWellFormed(Stats.weeklyData[k])
        ELSE /\ Stats.monthlyData = <<>>
             /\ Stats.weeklyData = <<>>

C1_Witness ==
    /\ Answered
    /\ Len(readings) >= 2
    /\ \E k \in 1..12 : HasRate(Stats.monthlyData[k])
    /\ \E k \in 1..12 : ~HasRate(Stats.monthlyData[k])
    /\ \E k \in 1..52 : HasRate(Stats.weeklyData[k])

\* --------------------------------------------------------------------- C2

\* C2: for a list of zero or one readings the call returns with
\* lastInterval null, yearStats null and no entry of either series
\* carrying a rate.
C2_FewReadingsUnavailable ==
    (Answered /\ Len(readings) <= 1) =>
        /\ Stats.lastInterval = Null
        /\ Stats.yearStats = Null
        /\ \A k \in DOMAIN Stats.monthlyData : ~HasRate(Stats.monthlyData[k])
        /\ \A k \in DOMAIN Stats.weeklyData : ~HasRate(Stats.weeklyData[k])

C2_Witness ==
    /\ Answered
    /\ Len(readings) = 1
    /\ readings[1].date >= At(2024, 1, 1, 0)
    /\ now = At(2024, 6, 2, 0)

\* --------------------------------------------------------------------- C3

\* The two latest readings of rs in ascending timestamp order.
LastIdx(rs) == LatestIdx(rs, DOMAIN rs)
PrevIdx(rs) == LatestIdx(rs, DOMAIN rs \ {LastIdx(rs)})

C3_Example ==
    <<Reading(2024, 1, 1, 0, 100000), Reading(2024, 2, 1, 0, 103000)>>

\* C3: for at least two readings lastInterval is computed from the two
\* latest readings (prev, last): days and liters and liters per day (0 when
\* no time lies between them), each rounded to one decimal (the rate to a
\* nearest value, to either neighbour when it lies midway), startDate and
\* endDate the two timestamps; the example gives 31.0, 3000.0 and 96.8.
C3_LastInterval ==
    (Answered /\ Len(readings) >= 2) =>
        LET last == readings[LastIdx(readings)]
            prev == readings[PrevIdx(readings)]
            dt   == last.date - prev.date
            li   == Stats.lastInterval[1]
        IN  /\ Len(Stats.lastInterval) = 1
            /\ IsRoundedUp(li.days, dt * 10, HoursPerDay)
            /\ li.liters = (last.value - prev.value) * 10
            /\ IF dt > 0
               THEN IsRounded(li.litersPerDay,
                              (last.value - prev.value) * 10 * HoursPerDay, dt)
               ELSE li.litersPerDay = 0
            /\ li.startDate = prev.date
            /\ li.endDate = last.date
            /\ readings = C3_Example =>
                   li.days = 310 /\ li.liters = 30000 /\ li.litersPerDay = 968

C3_Witness ==
    /\ Answered
    /\ readings = C3_Example
    /\ Stats.lastInterval[1].litersPerDay = 968

\* a second case of C3: the two latest readings share a timestamp
C3_TieReached ==
    /\ Answered
    /\ Len(readings) = 3
    /\ readings[LastIdx(readings)].date = readings[PrevIdx(readings)].date
    /\ readings[LastIdx(readings)].value # readings[PrevIdx(readings)].value
    /\ Stats.lastInterval[1].litersPerDay = 0

\* --------------------------------------------------------------------- C4

\* January 1st, 00:00, of the year of t.
StartOfYear(t) == At(getFullYear(t), 1, 1, 0)

\* The indices of the readings of rs in the current year.
InYearIdx(rs, t) == { i \in DOMAIN rs : rs[i].date >= StartOfYear(t) }

\* C4: yearStats is null exactly when fewer than two readings have a
\* timestamp at or after January 1st of the year of now; a single reading
\* on 2024-06-01 with now = 2024-06-02 yields null.
C4_YearStatsUnavailable ==
    Answered =>
        /\ Stats.yearStats = Null <=> Cardinality(InYearIdx(readings, now)) < 2
        /\ (readings = <<Reading(2024, 6, 1, 0, 101500)>> /\ now = At(2024, 6, 2, 0))
               => Stats.yearStats = Null

\* many older readings, one reading in the current year: yearStats null,
\* lastInterval available
C4_Witness ==
    /\ Answered
    /\ Len(readings) = 3
    /\ Cardinality(InYearIdx(readings, now)) = 1
    /\ Stats.yearStats = Null
    /\ Stats.lastInterval # Null

C4_ExampleReached ==
    /\ Answered
    /\ readings = <<Reading(2024, 6, 1, 0, 101500)>>
    /\ now = At(2024, 6, 2, 0)

\* --------------------------------------------------------------------- C5

\* The yearStats field of calculateStats(rs, now), computed as calculateStats
\* computes that field (the two series are not evaluated).
YearStatsOf(rs) ==
    IF Len(rs) < 2 THEN Null ELSE YearStats(SortByDate(rs), now)

RemoveAt(rs, i) == SubSeq(rs, 1, i - 1) \o SubSeq(rs, i + 1, Len(rs))

\* C5: with at least two readings in the current year, yearStats is made of
\* the earliest (first) and the latest (last) of them alone: totalLiters the
\* litres between them, days the days between them rounded to a whole
\* number, avgLitersPerDay litres per day rounded to one decimal (to a
\* nearest value, to either neighbour when it lies midway), or 0 when no
\* time lies between them; removing, adding or changing a reading
\* strictly between the two never changes yearStats.
C5_YearStatsFromEndpoints ==
    (Answered /\ Cardinality(InYearIdx(readings, now)) >= 2) =>
        LET S     == InYearIdx(readings, now)
            first == readings[EarliestIdx(readings, S)]
            last  == readings[LatestIdx(readings, S)]
            dt    == last.date - first.date
            ys    == Stats.yearStats[1]
            Between(d) == first.date < d /\ d < last.date
        IN  /\ Len(Stats.yearStats) = 1
            /\ ys.totalLiters = last.value - first.value
            /\ IsRoundedUp(ys.days, dt, HoursPerDay)
            /\ IF dt > 0
               THEN IsRounded(ys.avgLitersPerDay,
                              (last.value - first.value) * 10 * HoursPerDay, dt)
               ELSE ys.avgLitersPerDay = 0
            /\ Stats.yearStats = YearStatsOf(<<first, last>>)
            /\ \A i \in DOMAIN readings :
                   Between(readings[i].date) =>
                       /\ YearStatsOf(RemoveAt(readings, i)) = Stats.yearStats
                       /\ \A p \in ReadingPool :
                              Between(p.date) =>
                                  YearStatsOf([readings EXCEPT ![i] = p])
                                      = Stats.yearStats
            /\ \A p \in ReadingPool :
                   Between(p.date) =>
                       /\ YearStatsOf(Append(readings, p)) = Stats.yearStats
                       /\ YearStatsOf(<<p>> \o readings) = Stats.yearStats

\* three readings of the current year, the middle one stored last and not
\* on the line between the two endpoints
C5_Witness ==
    /\ Answered
    /\ now = At(2024, 6, 2, 0)
    /\ readings = <<Reading(2024, 1, 1, 0, 100000),
                    Reading(2024, 6, 1, 0, 101500),
                    Reading(2024, 2, 1, 0, 103000)>>
    /\ Stats.yearStats = <<[totalLiters |-> 1500, avgLitersPerDay |-> 99, days |-> 152]>>

\* a second case of C5: all readings of the year share one timestamp
C5_ZeroDaysReached ==
    /\ Answered
    /\ Cardinality(InYearIdx(readings, now)) >= 2
    /\ Stats.yearStats[1].days = 0
    /\ Stats.yearStats[1].totalLiters # 0
    /\ Stats.yearStats[1].avgLitersPerDay = 0

\* --------------------------------------------------------------------- C6

\* Index sets of the stored list: readings at or before, and before, b.
AtOrBefore(rs, b) == { j \in DOMAIN rs : rs[j].date <= b }
StrictlyBefore(rs, b) == { j \in DOMAIN rs : rs[j].date < b }

\* The latest reading among the indices S, or null when there is none.
LatestOf(rs, S) == IF S = {} THEN Null ELSE <<rs[LatestIdx(rs, S)]>>

LastOrNull(s) == IF s = <<>> THEN Null ELSE <<s[Len(s)]>>

\* The bracket reading `before` (startReading) the code takes for a bucket.
MonthBefore(sorted, i) == LastOrNull(MonthReadingsBefore(sorted, now, i))
WeekBefore(sorted, i) == LastOrNull(WeekReadingsBefore(sorted, now, i))

\* C6 as stated: for month buckets as for week buckets, `before` is the
\* latest reading with timestamp less than or equal to bucketStart.
C6_BeforeAtOrBeforeStart ==
    (Answered /\ Len(readings) >= 2) =>
        LET sorted == SortByDate(readings) IN
        /\ \A i \in 0..11 :
               MonthBefore(sorted, i) =
                   LatestOf(readings, AtOrBefore(readings, MonthDate(now, i)))
        /\ \A i \in 0..51 :
               WeekBefore(sorted, i) =
                   LatestOf(readings, AtOrBefore(readings, WeekStart(now, i)))

\* C6 amended: for week buckets `before` is the latest reading with
\* timestamp less than or equal to bucketStart; for month buckets it is the
\* latest reading with timestamp strictly less than bucketStart (a reading
\* exactly at the start of a month is not `before` of that month).
C6_BeforeOfBucket ==
    (Answered /\ Len(readings) >= 2) =>
        LET sorted == SortByDate(readings) IN
        /\ \A i \in 0..11 :
               MonthBefore(sorted, i) =
                   LatestOf(readings, StrictlyBefore(readings, MonthDate(now, i)))
        /\ \A i \in 0..51 :
               WeekBefore(sorted, i) =
                   LatestOf(readings, AtOrBefore(readings, WeekStart(now, i)))

\* one reading exactly at the start of a month bucket, after an earlier
\* reading, and one exactly at the start of a week bucket
C6_Witness ==
    /\ Answered
    /\ Len(readings) >= 2
    /\ \E i \in 0..11 : \E j \in DOMAIN readings :
           /\ readings[j].date = MonthDate(now, i)
           /\ MonthBefore(SortByDate(readings), i) # Null
           /\ MonthBefore(SortByDate(readings), i)[1].date < MonthDate(now, i)
    /\ \E i \in 0..51 : \E j \in DOMAIN readings :
           /\ readings[j].date = WeekStart(now, i)
           /\ WeekBefore(SortByDate(readings), i) = <<readings[j]>>

\* --------------------------------------------------------------------- C7

\* The entry e of a bucket whose `before` is the latest reading among the
\* indices B and whose `through` is the latest among the indices T: a rate
\* exactly when before exists, T holds more readings than B and through is
\* later than before; the rate is the litres per day between the two,
\* rounded to one decimal.
BucketEntryOK(e, rs, B, T) ==
    LET b  == rs[LatestIdx(rs, B)]
        th == rs[LatestIdx(rs, T)]
    IN  IF /\ B # {}
           /\ Cardinality(T) > Cardinality(B)
           /\ th.date > b.date
        THEN /\ Len(e.litersPerDay) = 1
             /\ IsRounded(e.litersPerDay[1],
                          (th.value - b.value) * 10 * HoursPerDay,
                          th.date - b.date)
        ELSE e.litersPerDay = Null

\* C7 as stated: in both series `before` is the latest reading at or before
\* bucketStart.
C7_RateAtOrBeforeStart ==
    (Answered /\ Len(readings) >= 2) =>
        /\ \A k \in 1..12 :
               BucketEntryOK(Stats.monthlyData[k], readings,
                             AtOrBefore(readings, MonthDate(now, 12 - k)),
                             AtOrBefore(readings, MonthEnd(now, 12 - k)))
        /\ \A k \in 1..52 :
               BucketEntryOK(Stats.weeklyData[k], readings,
                             AtOrBefore(readings, WeekStart(now, 52 - k)),
                             AtOrBefore(readings, WeekEnd(now, 52 - k)))

\* C7 amended: as stated for the week buckets; for the month buckets with
\* before = the latest reading strictly before bucketStart, and with the
\* readings strictly before bucketStart counted in place of those at or
\* before it; the rate rounded to a nearest value with one decimal, to
\* either neighbour when it lies midway.
C7_BucketRate ==
    (Answered /\ Len(readings) >= 2) =>
        /\ \A k \in 1..12 :
               BucketEntryOK(Stats.monthlyData[k], readings,
                             StrictlyBefore(readings, MonthDate(now, 12 - k)),
                             AtOrBefore(readings, MonthEnd(now, 12 - k)))
        /\ \A k \in 1..52 :
               BucketEntryOK(Stats.weeklyData[k], readings,
                             AtOrBefore(readings, WeekStart(now, 52 - k)),
                             AtOrBefore(readings, WeekEnd(now, 52 - k)))

\* a month bucket and a week bucket with a rate, the month's taken over a
\* span of readings longer than the month
C7_Witness ==
    /\ Answered
    /\ Len(readings) >= 2
    /\ \E k \in 1..12 :
           /\ HasRate(Stats.monthlyData[k])
           /\ LET B == StrictlyBefore(readings, MonthDate(now, 12 - k))
                  T == AtOrBefore(readings, MonthEnd(now, 12 - k))
              IN  readings[LatestIdx(readings, T)].date
                      - readings[LatestIdx(readings, B)].date
                  > MonthEnd(now, 12 - k) - MonthDate(now, 12 - k)
    /\ \E k \in 1..52 : HasRate(Stats.weeklyData[k])
    /\ \E k \in 1..52 : ~HasRate(Stats.weeklyData[k])

\* --------------------------------------------------------------------- C8

\* C8 as stated: in either window, a reading before every bucket's start
\* and another (here even a later one) at or before every bucket's end give
\* every bucket a value.
C8_CoverageOfWindow ==
    (Answered /\ Len(readings) >= 2) =>
        /\ (\E j, jj \in DOMAIN readings :
               /\ readings[j].date < readings[jj].date
               /\ \A i \in 0..11 : readings[j].date < MonthDate(now, i)
               /\ \A i \in 0..11 : readings[jj].date <= MonthEnd(now, i))
           => \A k \in 1..12 : HasRate(Stats.monthlyData[k])
        /\ (\E j, jj \in DOMAIN readings :
               /\ readings[j].date < readings[jj].date
               /\ \A i \in 0..51 : readings[j].date < WeekStart(now, i)
               /\ \A i \in 0..51 : readings[jj].date <= WeekEnd(now, i))
           => \A k \in 1..52 : HasRate(Stats.weeklyData[k])

\* A reading before the start b of a bucket and another inside the bucket
\* (after b, at or before its end e).
Covered(rs, b, e) ==
    /\ \E j \in DOMAIN rs : rs[j].date < b
    /\ \E j \in DOMAIN rs : b < rs[j].date /\ rs[j].date <= e

\* C8 amended: in either window, every bucket with a reading before its
\* start and another reading inside it (after its start, at or before its
\* end) has a value.
C8_CoverageOfBucket ==
    (Answered /\ Len(readings) >= 2) =>
        /\ \A k \in 1..12 :
               Covered(readings, MonthDate(now, 12 - k), MonthEnd(now, 12 - k))
                   => HasRate(Stats.monthlyData[k])
        /\ \A k \in 1..52 :
               Covered(readings, WeekStart(now, 52 - k), WeekEnd(now, 52 - k))
                   => HasRate(Stats.weeklyData[k])

\* a covered month bucket whose inner reading lies exactly at its end, and
\* a covered week bucket
C8_Witness ==
    /\ Answered
    /\ Len(readings) >= 2
    /\ \E k \in 1..12 :
           /\ Covered(readings, MonthDate(now, 12 - k), MonthEnd(now, 12 - k))
           /\ \E j \in DOMAIN readings : readings[j].date = MonthEnd(now, 12 - k)
           /\ HasRate(Stats.monthlyData[k])
    /\ \E k \in 1..52 :
           /\ Covered(readings, WeekStart(now, 52 - k), WeekEnd(now, 52 - k))
           /\ HasRate(Stats.weeklyData[k])

\* --------------------------------------------------------------------- C9

C9_Example ==
    <<Reading(2024, 1, 1, 0, 0), Reading(2024, 12, 31, 0, 365000)>>

C9_ExampleAsked ==
    Answered /\ readings = C9_Example /\ now = At(2025, 1, 1, 0)

\* C9 as stated: every bucket within the span of two readings has the
\* smoothed rate; in the example December and every other month bucket
\* between the two readings (February to November 2024) show 1000.0.
C9_SmoothedEverywhere ==
    /\ (Answered /\ Len(readings) >= 2) =>
           \A k \in 1..12 :
               (\E j, jj \in DOMAIN readings :
                    /\ readings[j].date < MonthDate(now, 12 - k)
                    /\ readings[jj].date >= MonthEnd(now, 12 - k))
               => HasRate(Stats.monthlyData[k])
    /\ C9_ExampleAsked =>
           \A k \in 1..11 : Stats.monthlyData[k].litersPerDay = <<10000>>

\* C9 amended: a bucket has the smoothed daily rate between its bracketing
\* readings only if a reading falls inside it; a bucket with no reading
\* inside is null also within the span of two readings.  In the example
\* December, which holds the reading of 2024-12-31, shows 1000.0 and every
\* other month bucket is null.
C9_SmoothedWhereRead ==
    /\ (Answered /\ Len(readings) >= 2) =>
           /\ \A k \in 1..12 :
                  (\A j \in DOMAIN readings :
                       \/ readings[j].date < MonthDate(now, 12 - k)
                       \/ readings[j].date > MonthEnd(now, 12 - k))
                  => ~HasRate(Stats.monthlyData[k])
           /\ \A k \in 1..52 :
                  (\A j \in DOMAIN readings :
                       \/ readings[j].date <= WeekStart(now, 52 - k)
                       \/ readings[j].date > WeekEnd(now, 52 - k))
                  => ~HasRate(Stats.weeklyData[k])
    /\ C9_ExampleAsked =>
           /\ Stats.monthlyData[11].litersPerDay = <<10000>>
           /\ Stats.monthlyData[11].month = <<11, 24>>
           /\ \A k \in (1..12) \ {11} : Stats.monthlyData[k].litersPerDay = Null

C9_Witness ==
    /\ C9_ExampleAsked
    /\ Stats.monthlyData[11].litersPerDay = <<10000>>
    /\ Stats.monthlyData[10].litersPerDay = Null

\* -------------------------------------------------------------------- C11

\* The reading list rs in the order given by the permutation f of its
\* indices.
Permuted(rs, f) == [k \in DOMAIN rs |-> rs[f[k]]]

IndexPermutations(n) ==
    { f \in [1..n -> 1..n] : \A a, b \in 1..n : f[a] = f[b] => a = b }

\* C11: calculateStats returns for every permutation of the reading list,
\* also of a list in which readings share a timestamp and differ in value,
\* the result it returns for the list itself.
C11_OrderIndependent ==
    Answered =>
        \A f \in IndexPermutations(Len(readings)) :
            calculateStats(Permuted(readings, f), now) = Stats

\* -------------------------------------------------------------------- C12

HoursPerWeek == 7 * 24

\* The bucket (0 the newest) in which the instant d lies: after its start,
\* at or before its end.
WeeksHolding(d) ==
    { i \in 0..51 : WeekStart(now, i) < d /\ d <= WeekEnd(now, i) }

\* C12: the weekly series has 52 buckets, oldest first, each 7 * 24 hours
\* long, each ending where the next one starts, the newest ending at now and
\* the oldest starting 52 * 7 days before now; so every instant of the 52
\* weeks lies in exactly one bucket, and a reading there that follows one
\* at or before the start of its bucket gives the bucket a rate.
C12_WeekBuckets ==
    (Answered /\ Len(readings) >= 2) =>
        /\ Len(Stats.weeklyData) = 52
        /\ \A i \in 0..51 : WeekEnd(now, i) - WeekStart(now, i) = HoursPerWeek
        /\ \A i \in 0..50 : WeekEnd(now, i + 1) = WeekStart(now, i)
        /\ WeekEnd(now, 0) = now
        /\ WeekStart(now, 51) = now - 52 * HoursPerWeek
        /\ \A k \in 1..52 :
               LET day == CivilFromDays((now - (53 - k) * HoursPerWeek) \div HoursPerDay)
               IN  Stats.weeklyData[k].week = <<day.day, day.month>>
        /\ \A j \in DOMAIN readings :
               LET d == readings[j].date
               IN  (now - 52 * HoursPerWeek < d /\ d <= now) =>
                       /\ Cardinality(WeeksHolding(d)) = 1
                       /\ \A i \in WeeksHolding(d) :
                              (\E jj \in DOMAIN readings :
                                   readings[jj].date <= WeekStart(now, i))
                                  => HasRate(Stats.weeklyData[52 - i])

\* a reading exactly on the boundary of two week buckets, after an earlier
\* reading: the rate is in the bucket that ends there, not in the next one
C12_Witness ==
    /\ Answered
    /\ Len(readings) = 2
    /\ \E j \in DOMAIN readings : \E i \in 0..50 :
           /\ readings[j].date = WeekStart(now, i)
           /\ \E jj \in DOMAIN readings : readings[jj].date < readings[j].date
           /\ HasRate(Stats.weeklyData[52 - (i + 1)])
           /\ ~HasRate(Stats.weeklyData[52 - i])

\* -------------------------------------------------------------------- C13

\* The first instant after the 12 month buckets: the first of next month.
MonthRangeEnd(t) == NewDate(getFullYear(t), getMonth(t) + 1, 1)

\* C13: the 12 month buckets are whole calendar months, each ending where
\* the next one starts: every reading within the 12 months, at any time of
\* any day, lies in one of the buckets (at or after its start, at or before
\* its end), and one that follows an earlier reading gives its month a rate.
C13_WholeCalendarMonths ==
    (Answered /\ Len(readings) >= 2) =>
        \A j \in DOMAIN readings :
            LET d == readings[j].date
            IN  (MonthDate(now, 11) <= d /\ d < MonthRangeEnd(now)) =>
                    \E i \in 0..11 :
                        /\ MonthDate(now, i) <= d
                        /\ d <= MonthEnd(now, i)
                        /\ (\E jj \in DOMAIN readings : readings[jj].date < MonthDate(now, i))
                               => HasRate(Stats.monthlyData[12 - i])

\* ------------------------------------------------ the claims on the server

\* The last response, and what the step just taken answered.
Resp == response[1]
Answers(route, status) ==
    /\ response' # response
    /\ response' # Null
    /\ response'[1].route = route
    /\ response'[1].status = status

\* The routes that read or change readings, statistics or meter images.
DataRoutes == {"data", "readings", "upload", "manual", "delete", "image"}

\* C14: a session that is not authenticated cannot read stored data.  The
\* claim has every request of such a session to the readings, the
\* statistics and the meter images answered 401; it follows that none of
\* them is answered 200 with the data, which is what this formula states.
C14_UnauthenticatedReadsNothing ==
    (response # Null /\ Resp.route \in DataRoutes /\ ~Resp.authed)
        => Resp.status # 200

\* A step that changes the data file appends one reading to it or removes
\* one reading from it, the others staying in their stored order.
AppendsOne ==
    /\ Len(readings') = Len(readings) + 1
    /\ readings' = Append(readings, readings'[Len(readings')])
RemovesOne == \E k \in DOMAIN readings : readings' = RemoveAt(readings, k)

\* C15: the chronological sort of the statistics leaves the stored order
\* alone: GET /api/data answers the readings in the order of the data file
\* and leaves the file as it was, and what the add and delete handlers
\* write back is the stored list with one reading appended or removed.
C15_StoredOrderKept ==
    [][/\ Answers("data", 200)
          => (response'[1].readings = readings /\ readings' = readings)
       /\ readings' # readings => (AppendsOne \/ RemovesOne)]_vars

\* GET /api/data has answered a data file whose stored order is not the
\* chronological one.
C15_Witness ==
    /\ response # Null
    /\ Resp.route = "data"
    /\ Resp.status = 200
    /\ Resp.readings = readings
    /\ Len(readings) >= 2
    /\ SortByDate(readings) # readings

\* The statuses of a refused request.
ErrorStatuses == {400, 401, 404, 500}

\* C16: a step that answers a request with an error status leaves the
\* stored readings as they were, and the image files too.
C16_ErrorsChangeNothing ==
    [][(response' # Null /\ response'[1].status \in ErrorStatuses)
          => (readings' = readings /\ images' = images)]_vars

\* An upload has been refused after its analysis while a reading and its
\* image were stored.
C16_Witness ==
    /\ response # Null
    /\ Resp.route = "upload"
    /\ Resp.status \in {400, 500}
    /\ Len(readings) >= 1
    /\ images # {}
    /\ BagCardinality(uploads) = 0

\* C17: a successful DELETE removes one reading, one that has the given id,
\* the others staying in their order, and answers the statistics of the
\* data file after the removal, at the instant of the request.
C17_DeleteRemovesThatOne ==
    [][Answers("delete", 200)
          => /\ \E k \in DOMAIN readings :
                   /\ readings[k].id = response'[1].id
                   /\ readings' = RemoveAt(readings, k)
             /\ response'[1].stats = calculateStats(readings', now')]_vars

\* A DELETE has been answered 200 and has left two readings of other ids,
\* stored the later before the earlier, with the statistics of these two.
C17_Witness ==
    /\ response # Null
    /\ Resp.route = "delete"
    /\ Resp.status = 200
    /\ Len(readings) = 2
    /\ \A k \in DOMAIN readings : readings[k].id # Resp.id
    /\ readings[1].date > readings[2].date
    /\ Resp.stats.lastInterval # Null
    /\ Resp.stats.lastInterval[1].liters # 0

\* C18: no two readings of the data file share an id.
C18_UniqueIds ==
    \A j, k \in DOMAIN readings : j # k => readings[j].id # readings[k].id

\* C19: every stored reading that has an image refers to a file of the
\* images directory.
C19_ImagesExist ==
    \A k \in DOMAIN readings :
        readings[k].image # Null => ExistsFile(images, readings[k].image[1])

\* C20: no update is lost.  Whatever requests are suspended, a step that
\* changes the data file is the acknowledged mutation applied to the file
\* as it is at that step: the reading of a successful upload or manual
\* entry appended, or a reading of the id of a successful DELETE removed;
\* and every reading acknowledged is in the file from then on.  So the
\* file is always what the successful mutations, taken one after the
\* other, make of it.
C20_NoLostUpdate ==
    [][/\ readings' # readings
          => /\ response' # Null
             /\ response'[1].status = 200
             /\ \/ /\ response'[1].route \in {"upload", "manual"}
                   /\ readings' = Append(readings, response'[1].reading)
                \/ /\ response'[1].route = "delete"
                   /\ \E k \in DOMAIN readings :
                         /\ readings[k].id = response'[1].id
                         /\ readings' = RemoveAt(readings, k)
       /\ (Answers("upload", 200) \/ Answers("manual", 200))
          => readings' = Append(readings, response'[1].reading)]_vars

\* A photo upload, suspended while a manual entry was stored, has then
\* stored its own reading behind it.
C20_Witness ==
    /\ response # Null
    /\ Resp.route = "upload"
    /\ Resp.status = 200
    /\ Len(readings) = 2
    /\ readings[1].image = Null
    /\ readings[1].date > readings[2].date
    /\ readings[2] = Resp.reading

\* ------------------------------------------------ the claims on the client

\* No logout() of the page is under way.
LogoutDone == \A f \in BagToSet(client.fetches) : f.kind # "logout"

\* C21: a page that is not authenticated holds no data of a session: while
\* state.authenticated is false, state.readings is empty and state.stats
\* is null.  The claim has this in every reachable state; the formula
\* states it for the states a logout leaves behind, in which the session
\* is logged out at the server and logout() has run to its end.
C21_LoggedOutHoldsNothing ==
    (~requireAuth(ClientSession) /\ LogoutDone /\ ~client.authenticated)
        => (client.readings = <<>> /\ client.stats = Null)

\* C22: while the camera modal is hidden no camera stream is held open:
\* state.mediaStream is null and every stream granted has been stopped.
C22_HiddenModalHoldsNoStream ==
    client.modal = "hidden" => (client.mediaStream = Null /\ client.live = {})
====
